---- MODULE Spec2Model ----
(***************************************************************************)
(* Model of app/core/mixer.py: class Mixer.                                *)
(*                                                                         *)
(* Numbers.  The model is exact: it covers the calls whose every           *)
(* intermediate value is a double that integer arithmetic can name.        *)
(*   - image sides are 1, 2 or 4, so the discrete transform only uses the  *)
(*     factors 1, -1, i, -i and a spectrum of an integer image is a grid   *)
(*     of Gaussian integers <<re, im>>;                                    *)
(*   - sigma is a decimal <<m, e>>, the number m * 10^e, and is 0 or at    *)
(*     least 2^29, so every entry of the Gaussian mask is the double 0.0   *)
(*     or 1.0 (see GaussianValue), or so large that float(sigma) ** 2      *)
(*     overflows (see SquareOverflows);                                    *)
(*   - a slot mixed by "FT Magnitude" or "FT Phase" has a spectrum of      *)
(*     phase 0 (see ExactPolar), so exp(1j * phase) is exactly 1;          *)
(*   - the inverse transform of an H x W spectrum is kept as its integer   *)
(*     numerators over the common denominator H * W, a power of two;       *)
(*   - the final rescale is done in IEEE double arithmetic, rounding       *)
(*     included (see the section on cv2.normalize).                        *)
(* Matrices are sequences of rows, indexed from 1 (numpy indexes from 0).  *)
(***************************************************************************)
EXTENDS Integers, Sequences, FiniteSets, TLC

\* ------------------------------------------------------------------------
\* Python values

\* None, for min_height and min_width (mixer.py line 43).
NoDim == -1

\* None, for images[i] (mixer.py line 57): the model's images are sequences.
NoImage == << >>

\* None, for the output label references (mixer.py lines 13-14).
NoLabel == "None"

\* The side of the placeholder image (mixer.py line 44).
PlaceholderSize == 100

Rows(m) == Len(m)
Cols(m) == Len(m[1])
Shape(m) == <<Rows(m), Cols(m)>>

\* np.zeros((h, w)) of a real dtype.
Zeros(h, w) == [y \in 1..h |-> [x \in 1..w |-> 0]]

\* np.zeros((h, w), dtype=np.complex128).
ComplexZeros(h, w) == [y \in 1..h |-> [x \in 1..w |-> <<0, 0>>]]

\* ------------------------------------------------------------------------
\* Complex arithmetic on <<re, im>>

CAdd(a, b) == <<a[1] + b[1], a[2] + b[2]>>
CMul(a, b) == <<a[1] * b[1] - a[2] * b[2], a[1] * b[2] + a[2] * b[1]>>
CScale(s, a) == <<s * a[1], s * a[2]>>

Abs(n) == IF n < 0 THEN -n ELSE n

\* i^q, for q in 0..3.
IPower(q) == CASE q = 0 -> <<1, 0>>
               [] q = 1 -> <<0, 1>>
               [] q = 2 -> <<-1, 0>>
               [] q = 3 -> <<0, -1>>

\* exp(-2*pi*i*m/n), the forward transform's factor, for n in {1, 2, 4}.
Twiddle(n, m) == IPower((4 - (((4 \div n) * m) % 4)) % 4)

\* exp(+2*pi*i*m/n), the inverse transform's factor.
InverseTwiddle(n, m) == IPower(((4 \div n) * m) % 4)

RECURSIVE CSum(_, _)
\* The sum of the first n entries of a sequence of complex numbers.
CSum(s, n) == IF n = 0 THEN <<0, 0>> ELSE CAdd(CSum(s, n - 1), s[n])

\* np.fft.fft2 of a real integer image.
fft2(image) ==
  LET h == Rows(image)
      w == Cols(image)
      RowTerm(u, v, y) ==
        CSum([x \in 1..w |->
                CScale(image[y][x],
                       CMul(Twiddle(h, (u - 1) * (y - 1)),
                            Twiddle(w, (v - 1) * (x - 1))))], w)
  IN [u \in 1..h |-> [v \in 1..w |->
        CSum([y \in 1..h |-> RowTerm(u, v, y)], h)]]

\* np.fft.ifft2 of an h x w spectrum, times h * w: the numerators of the
\* result over the denominator h * w.
ifft2_numerators(spectrum) ==
  LET h == Rows(spectrum)
      w == Cols(spectrum)
      RowTerm(y, x, u) ==
        CSum([v \in 1..w |->
                CMul(spectrum[u][v],
                     CMul(InverseTwiddle(h, (u - 1) * (y - 1)),
                          InverseTwiddle(w, (v - 1) * (x - 1))))], w)
  IN [y \in 1..h |-> [x \in 1..w |->
        CSum([u \in 1..h |-> RowTerm(y, x, u)], h)]]

\* np.fft.fftshift: every axis rolled by n // 2.
fftshift(m) ==
  LET h == Rows(m)
      w == Cols(m)
  IN [y \in 1..h |-> [x \in 1..w |->
        m[((y - 1 - (h \div 2)) % h) + 1][((x - 1 - (w \div 2)) % w) + 1]]]

\* np.fft.ifftshift: every axis rolled by -(n // 2).
ifftshift(m) ==
  LET h == Rows(m)
      w == Cols(m)
  IN [y \in 1..h |-> [x \in 1..w |->
        m[((y - 1 + (h \div 2)) % h) + 1][((x - 1 + (w \div 2)) % w) + 1]]]

\* ------------------------------------------------------------------------
\* cv2.normalize(src, None, 0, 255, cv2.NORM_MINMAX).astype(np.uint8)
\*
\* OpenCV computes, in doubles,
\*     scale = 255 * (smax - smin > DBL_EPSILON ? 1. / (smax - smin) : 0)
\*     shift = 0 - smin * scale
\*     dst   = src * scale + shift          (Mat::convertTo)
\* and astype(np.uint8) then drops the fraction of dst.  Every operation
\* rounds to the nearest double (53 bits, ties to even), and the model
\* rounds with it.  The source values are n / (H * W) for integers n (the
\* numerators); H * W is a power of two and scales every product exactly,
\* so the result is that of the integers n themselves.  A double near
\* 2^p * x is written by its integer distance to 2^p * x, which is small;
\* the low bits that decide a rounding come from 2^p modulo a small number.

\* The upper end of the output range (mixer.py line 104).
OutMax == 255

\* The number of bits of n >= 1.
BitLen(n) == CHOOSE b \in 1..30 : 2^(b - 1) <= n /\ n < 2^b

RECURSIVE Pow2Mod(_, _)
\* 2^p modulo M.
Pow2Mod(p, M) == IF p = 0 THEN 1 % M ELSE (2 * Pow2Mod(p - 1, M)) % M

\* Rounding an integer Z to a multiple of 2^s, to nearest, ties to even:
\* given w = Z mod 2^(s+1), the e with Z + e the rounded value.
RoundAdjust(w, s) ==
  IF s = 0 THEN 0
  ELSE LET r == w % (2^s)
           bit == w \div (2^s)
           half == 2^(s - 1)
       IN IF r > half \/ (r = half /\ bit = 1) THEN 2^s - r ELSE -r

\* inv = 1. / k rounds to m1 / 2^p with p = 52 + BitLen(k) and
\* m1 = (2^p + RecipErr(k)) / k.
RecipExp(k) == 52 + BitLen(k)

RecipErr(k) ==
  LET rho == Pow2Mod(RecipExp(k), k)
  IN IF rho = 0 THEN 0 ELSE IF 2 * rho > k THEN k - rho ELSE -rho

\* m1 modulo 2^j.
RecipLowBits(k, j) ==
  LET M == k * 2^j
  IN ((Pow2Mod(RecipExp(k), M) + RecipErr(k)) % M) \div k

\* scale = 255 * inv: the product 255 * m1 has 53 + ScaleShift(k) bits and
\* rounds to m2 * 2^ScaleShift(k), with
\* m2 * 2^ScaleShift(k) = 255 * m1 + ScaleErr(k).
ScaleShift(k) ==
  LET b == BitLen(k)
      up == CHOOSE g \in 0..7 : k * 2^g <= OutMax /\ OutMax < k * 2^(g + 1)
      down == CHOOSE g \in 1..20 : OutMax * 2^(g - 1) < k /\ k <= OutMax * 2^g
      g0 == IF k <= OutMax THEN up ELSE -down
      onPower == IF k <= OutMax THEN k * 2^up = OutMax ELSE OutMax * 2^down = k
  IN IF onPower /\ RecipErr(k) < 0 THEN b + g0 - 1 ELSE b + g0

ScaleErr(k) ==
  LET s2 == ScaleShift(k)
  IN RoundAdjust((OutMax * RecipLowBits(k, s2 + 1)) % (2^(s2 + 1)), s2)

\* m2 modulo 2^j.
ScaleLowBits(k, j) ==
  LET s2 == ScaleShift(k)
      J == s2 + j
  IN ((OutMax * RecipLowBits(k, J) + ScaleErr(k)) % (2^J)) \div (2^s2)

\* k * 2^ScaleShift(k) * m2 = 255 * 2^p + ScaleDev(k).
ScaleDev(k) == OutMax * RecipErr(k) + k * ScaleErr(k)

\* n * scale: the product n * m2 has 53 + ProductShift(k, n) bits.
ProductShift(k, n) ==
  IF n = 0 THEN 0
  ELSE LET c == BitLen(n) - 1
           t == c + ScaleShift(k) - BitLen(k) + 1
           lhs == IF t >= 0 THEN n * OutMax ELSE n * OutMax * 2^(-t)
           rhs == IF t >= 0 THEN k * 2^t ELSE k
       IN IF lhs > rhs \/ (lhs = rhs /\ n * ScaleDev(k) >= 0) THEN c + 1 ELSE c

\* n * scale rounds to n * m2 + ProductErr(k, n).
ProductErr(k, n) ==
  LET s == ProductShift(k, n)
  IN IF s = 0 THEN 0
     ELSE RoundAdjust((n * ScaleLowBits(k, s + 1)) % (2^(s + 1)), s)

\* uint8(src * scale + shift) for src = n / (H*W), smin = nmin / (H*W) and
\* smax - smin = k / (H*W) >= 1 / (H*W).  fused: the build computes
\* src * scale + shift as one fused multiply-add (one rounding) instead of
\* a product and a sum (two roundings).
NormalizePixel(n, nmin, k, fused) ==
  LET Q == (n - nmin) * OutMax
      E == Q \div k
      dk == (n - nmin) * ScaleDev(k)
            + k * 2^ScaleShift(k)
                * ((IF fused THEN 0 ELSE ProductErr(k, n)) - ProductErr(k, nmin))
      j == BitLen(E) - 1
      th == BitLen(k) + j - 1 - (IF E = 2^j THEN 1 ELSE 0)
      roundsUp == IF th >= 0 THEN -dk <= k * 2^th ELSE (-dk) * 2^(-th) <= k
  IN IF Q % k # 0 \/ E = 0 THEN E        \* the exact value is not a whole number
     ELSE IF dk >= 0 THEN E              \* computed value >= E
     ELSE IF roundsUp THEN E             \* below E by at most half a unit
     ELSE E - 1                          \* just below E: the fraction is dropped

MatrixMin(m) ==
  LET S == {m[y][x] : y \in 1..Rows(m), x \in 1..Cols(m)}
  IN CHOOSE v \in S : \A u \in S : v <= u

MatrixMax(m) ==
  LET S == {m[y][x] : y \in 1..Rows(m), x \in 1..Cols(m)}
  IN CHOOSE v \in S : \A u \in S : v >= u

\* cv2.normalize(...).astype(np.uint8) of the image numerators / (H*W).
Normalize(numerators, fused) ==
  LET nmin == MatrixMin(numerators)
      k == MatrixMax(numerators) - nmin
  IN IF k = 0
     THEN Zeros(Rows(numerators), Cols(numerators))   \* scale = 0, shift = 0
     ELSE [y \in 1..Rows(numerators) |-> [x \in 1..Cols(numerators) |->
             NormalizePixel(numerators[y][x], nmin, k, fused)]]

\* ------------------------------------------------------------------------
\* Mixer.__create_gaussian_mask

\* sigma is the decimal <<m, e>>, the number m * 10^e, with e = 0 or m a
\* single non-zero digit: <<0, 0>> is 0, <<1, 9>> is 1e9, <<1, 155>> is 1e155.
SigmaIsZero(sigma) == sigma[1] = 0

\* |sigma| >= 2^29 (10^9 is above 2^29).
SigmaIsWide(sigma) ==
  /\ sigma[1] # 0
  /\ \/ sigma[2] >= 9
     \/ sigma[2] = 0 /\ Abs(sigma[1]) >= 2^29

\* float(sigma) ** 2 raises OverflowError: the square of a Python float is
\* an error, not inf, when it exceeds the largest double (about 1.797e308),
\* that is when |sigma| exceeds about 1.34e154.
SquareOverflows(sigma) ==
  /\ sigma[1] # 0
  /\ \/ sigma[2] >= 155
     \/ sigma[2] = 154 /\ Abs(sigma[1]) >= 2

\* np.exp(-distance_sq / (2.0 * (float(sigma) ** 2 + 1e-6))), as a double,
\* where the double is 0.0 or 1.0:
\*   distance_sq = 0                 exp(-0.0) = 1.0
\*   sigma = 0, distance_sq >= 1     exp(-500000 * distance_sq) underflows to 0.0
\*   |sigma| >= 2^29, distance_sq < 32
\*                                   the exponent is below 2^-54 in size (it
\*                                   is -0.0 once 2.0 * sigma ** 2 is inf),
\*                                   and exp of it rounds to 1.0
\* Any other mask value is not a number of the model.
GaussianValue(distance_sq, sigma) ==
  CASE distance_sq = 0 -> 1
    [] distance_sq > 0 /\ SigmaIsZero(sigma) -> 0
    [] distance_sq > 0 /\ distance_sq < 32 /\ SigmaIsWide(sigma) -> 1

\* Whether every entry of the height x width mask is 0.0 or 1.0.
MaskExact(height, width, sigma) ==
  SigmaIsZero(sigma) \/ (SigmaIsWide(sigma) /\ height <= 4 /\ width <= 4)

create_gaussian_mask(height, width, sigma) ==
  LET center_x == width \div 2
      center_y == height \div 2
  IN [y \in 1..height |-> [x \in 1..width |->
        GaussianValue(((x - 1) - center_x) * ((x - 1) - center_x)
                      + ((y - 1) - center_y) * ((y - 1) - center_y), sigma)]]

\* ------------------------------------------------------------------------
\* numpy broadcasting of two-dimensional arrays

\* Whether shapes s and t broadcast together (a * b does not raise).
Broadcastable(s, t) ==
  \A d \in 1..2 : s[d] = t[d] \/ s[d] = 1 \/ t[d] = 1

\* Whether an array of shape s broadcasts to the shape t (t += s does not
\* raise).
BroadcastableTo(s, t) ==
  \A d \in 1..2 : s[d] = t[d] \/ s[d] = 1

Max(a, b) == IF a >= b THEN a ELSE b

\* The entry [y][x] of m broadcast to a larger shape.
At(m, y, x) == m[IF Rows(m) = 1 THEN 1 ELSE y][IF Cols(m) = 1 THEN 1 ELSE x]

\* ft_data * mask, for a complex ft_data and a real mask that broadcast.
MulReal(ft_data, mask) ==
  [y \in 1..Max(Rows(ft_data), Rows(mask)) |->
     [x \in 1..Max(Cols(ft_data), Cols(mask)) |->
        CScale(At(mask, y, x), At(ft_data, y, x))]]

\* 1.0 - gaussian_mask.
OneMinus(mask) ==
  [y \in 1..Rows(mask) |-> [x \in 1..Cols(mask) |-> 1 - mask[y][x]]]

\* combined_ft += contribution, for a contribution that broadcasts to
\* combined_ft.
AddInPlace(combined_ft, contribution) ==
  [y \in 1..Rows(combined_ft) |-> [x \in 1..Cols(combined_ft) |->
     CAdd(combined_ft[y][x], At(contribution, y, x))]]

\* ------------------------------------------------------------------------
\* Mixer.__apply_region_mask

\* Whether ft_data * mask raises ValueError (shapes that do not broadcast).
MaskRaises(region_mode, ft_data, gaussian_mask) ==
  region_mode # "None" /\ ~Broadcastable(Shape(ft_data), Shape(gaussian_mask))

apply_region_mask(region_mode, ft_data, gaussian_mask) ==
  IF region_mode = "None" THEN ft_data
  ELSE IF region_mode = "Inner" THEN MulReal(ft_data, gaussian_mask)
  ELSE MulReal(ft_data, OneMinus(gaussian_mask))

\* ------------------------------------------------------------------------
\* The four components

\* np.abs of a complex number on an axis.
Magnitude(z) == CASE z[2] = 0 -> Abs(z[1])
                  [] z[1] = 0 -> Abs(z[2])

\* np.angle of a complex number on an axis, in quarter turns:
\* atan2(0, x >= 0) = 0, atan2(y > 0, 0) = pi/2, atan2(0, x < 0) = pi,
\* atan2(y < 0, 0) = -pi/2.
Angle(z) == CASE z[2] = 0 /\ z[1] >= 0 -> 0
              [] z[1] = 0 /\ z[2] > 0 -> 1
              [] z[2] = 0 /\ z[1] < 0 -> 2
              [] z[1] = 0 /\ z[2] < 0 -> 3

\* np.exp(1j * phase) for a phase of q quarter turns.  Only q = 0 is exact
\* in doubles (exp(1j * pi) is -1 + 1.2e-16j): see ExactPolar.
ExpI(q) == IPower(q)

\* Whether magnitude * np.exp(1j * phase) and np.exp(1j * phase) are exact
\* for the spectrum ft: every entry is real with phase 0.  A zero entry has
\* phase 0 if it is +0.0, which the transforms of length 1 and 2 (sums and
\* differences only) guarantee.
ExactPolar(ft) ==
  \A y \in 1..Rows(ft), x \in 1..Cols(ft) :
     /\ ft[y][x][2] = 0
     /\ ft[y][x][1] >= 0
     /\ ft[y][x][1] = 0 => (Rows(ft) <= 2 /\ Cols(ft) <= 2)

Selectors == {"FT Magnitude", "FT Phase", "FT Real", "FT Imaginary"}

\* A contribution whose "FT Real" branch keeps the imaginary part.
weighted_component_keeping_imaginary(selected, weight, ft_image_masked) ==
  [y \in 1..Rows(ft_image_masked) |-> [x \in 1..Cols(ft_image_masked) |->
     LET z == ft_image_masked[y][x]
     IN CASE selected = "FT Magnitude" ->
               CScale(weight * Magnitude(z), ExpI(Angle(z)))
          [] selected = "FT Phase" -> CScale(weight, ExpI(Angle(z)))
          [] selected = "FT Real" -> CScale(weight, z)
          [] selected = "FT Imaginary" -> CScale(weight, <<0, z[2]>>)]]

\* The complex contribution of one slot (mixer.py lines 70-94).
weighted_component(selected, weight, ft_image_masked) ==
  [y \in 1..Rows(ft_image_masked) |-> [x \in 1..Cols(ft_image_masked) |->
     LET z == ft_image_masked[y][x]
     IN CASE selected = "FT Magnitude" ->
               CScale(weight * Magnitude(z), ExpI(Angle(z)))
          [] selected = "FT Phase" -> CScale(weight, ExpI(Angle(z)))
          [] selected = "FT Real" -> CScale(weight, <<z[1], 0>>)
          [] selected = "FT Imaginary" -> CScale(weight, <<0, z[2]>>)]]

\* ------------------------------------------------------------------------
\* Mixer.mix_images

Returned(image) == [status |-> "returned", image |-> image]
Raised(error) == [status |-> error, image |-> << >>]

\* A skip test that looks at the image only.
Skipped_absent_only(a, i) == a.images[i] = NoImage

\* images[i] is None or weights[i] == 0.0 (slot 1 is images[0]).
Skipped(a, i) == a.images[i] = NoImage \/ a.weights[i] = 0

\* A chain that ends in an else taking the "FT Real" branch.
branch_defaulting_to_real(selected) ==
  IF selected \in Selectors THEN selected ELSE "FT Real"

\* The branch of the if / elif chain over the selector that is taken; the
\* chain has no else, and a selector that matches no branch adds nothing.
NoBranch == "no branch"
branch(selected) == IF selected \in Selectors THEN selected ELSE NoBranch

RECURSIVE SlotLoop(_, _, _, _, _)
\* The loop over the four slots from slot i on (slot 1 is images[0]):
\* the final combined_ft, or the error raised on the way.
SlotLoop(i, combined_ft, a, region_mode, gaussian_mask) ==
  IF i > 4 THEN [raised |-> FALSE, combined_ft |-> combined_ft]
  ELSE IF Skipped(a, i)
  THEN SlotLoop(i + 1, combined_ft, a, region_mode, gaussian_mask)
  ELSE
    LET weight == a.weights[i]
        ft_image == fft2(a.images[i])
        ft_image_shifted == fftshift(ft_image)
        ft_image_masked ==
          apply_region_mask(region_mode, ft_image_shifted, gaussian_mask)
        selected == a.component_selections[i]
    IN IF MaskRaises(region_mode, ft_image_shifted, gaussian_mask)
       THEN [raised |-> TRUE, combined_ft |-> combined_ft]
       ELSE IF branch(selected) = NoBranch
       THEN SlotLoop(i + 1, combined_ft, a, region_mode, gaussian_mask)
       ELSE IF ~BroadcastableTo(Shape(ft_image_masked), Shape(combined_ft))
       THEN [raised |-> TRUE, combined_ft |-> combined_ft]
       ELSE SlotLoop(i + 1,
                     AddInPlace(combined_ft,
                       weighted_component(branch(selected), weight,
                                          ft_image_masked)),
                     a, region_mode, gaussian_mask)

\* np.abs of a grid of complex numbers.
AbsMatrix(m) ==
  [y \in 1..Rows(m) |-> [x \in 1..Cols(m) |-> Magnitude(m[y][x])]]

\* mixer.py lines 47-94: the mask and the loop over the slots.
combine(region_mode, a) ==
  LET sigma == a.selector_region[3]
      gaussian_mask == create_gaussian_mask(a.min_height, a.min_width, sigma)
  IN SlotLoop(1, ComplexZeros(a.min_height, a.min_width), a, region_mode,
              gaussian_mask)

\* mixer.py lines 97-101: mixed_image, as numerators over H * W.
reconstruct(combined_ft) ==
  LET combined_ft_shifted == ifftshift(combined_ft)
      mixed_image_complex == ifft2_numerators(combined_ft_shifted)
  IN AbsMatrix(mixed_image_complex)

\* mix_images whose first test looks at min_width only: a min_height of
\* None reaches np.zeros((None, min_width)), a TypeError.
mix_images_testing_width_only(region_mode, fused, a) ==
  IF a.min_width = NoDim
  THEN Returned(Zeros(PlaceholderSize, PlaceholderSize))
  ELSE IF a.min_height = NoDim
  THEN Raised("TypeError")
  ELSE IF Len(a.selector_region) < 3
  THEN Raised("IndexError")
  ELSE IF SquareOverflows(a.selector_region[3])
  THEN Raised("OverflowError")
  ELSE
    LET loop == combine(region_mode, a)
    IN IF loop.raised THEN Raised("ValueError")
       ELSE Returned(Normalize(reconstruct(loop.combined_ft), fused))

\* mix_images(images, weights, component_selections, selector_region,
\* min_height, min_width) on a Mixer whose _region_mode is region_mode.
mix_images(region_mode, fused, a) ==
  IF a.min_width = NoDim \/ a.min_height = NoDim
  THEN Returned(Zeros(PlaceholderSize, PlaceholderSize))
  ELSE IF Len(a.selector_region) < 3
  THEN Raised("IndexError")                     \* selector_region[2]
  ELSE IF SquareOverflows(a.selector_region[3])
  THEN Raised("OverflowError")                  \* __create_gaussian_mask
  ELSE
    LET loop == combine(region_mode, a)
    IN IF loop.raised THEN Raised("ValueError")
       ELSE Returned(Normalize(reconstruct(loop.combined_ft), fused))

\* ------------------------------------------------------------------------
\* The Mixer object, the build, and the history of its calls.
VARIABLES
  region_mode,      \* self._region_mode
  output_label_1,   \* self._output_label_1
  output_label_2,   \* self._output_label_2
  fused,            \* the build: convertTo uses a fused multiply-add
  last_text,        \* history: << >>, or <<the text of the last set_region_mode>>
  args,             \* history: the arguments of the last mix_images call
  result,           \* history: what the last mix_images call returned or raised
  calls             \* history: <<region mode, arguments, result>> of each call

vars == <<region_mode, output_label_1, output_label_2, fused, last_text,
          args, result, calls>>

\* ------------------------------------------------------------------------
\* Mixer.set_region_mode

\* Texts are sequences of characters.
Inner == <<"I", "n", "n", "e", "r">>
Outer == <<"O", "u", "t", "e", "r">>

\* pattern in text (Python's substring test).
Contains(text, pattern) ==
  \E i \in 1..(Len(text) - Len(pattern) + 1) :
     SubSeq(text, i, i + Len(pattern) - 1) = pattern

\* set_region_mode without its else: a text with neither word leaves the
\* mode held before in force.
set_region_mode_without_else(mode) ==
  IF Contains(mode, Inner) THEN "Inner"
  ELSE IF Contains(mode, Outer) THEN "Outer"
  ELSE region_mode

\* The value set_region_mode(mode) gives self._region_mode.
set_region_mode(mode) ==
  IF Contains(mode, Inner) THEN "Inner"
  ELSE IF Contains(mode, Outer) THEN "Outer"
  ELSE "None"

\* ------------------------------------------------------------------------
\* The Mixer object and its caller

RegionModes == {"None", "Inner", "Outer"}

Arguments(images, weights, component_selections, selector_region, min_height, min_width) ==
  [images |-> images, weights |-> weights,
   component_selections |-> component_selections,
   selector_region |-> selector_region,
   min_height |-> min_height, min_width |-> min_width]

\* No mix_images call yet.
NoCall == Arguments(<< >>, << >>, << >>, << >>, NoDim, NoDim)
NoResult == [status |-> "none", image |-> << >>]
Pending == [status |-> "pending", image |-> << >>]

\* Slot i takes part in the mix.
Active(a, i) == ~Skipped(a, i)

Sides == {1, 2, 4}

\* The calls the model computes exactly (see the head of the module).
Exact(mode, a) ==
  IF a.min_height = NoDim \/ a.min_width = NoDim THEN TRUE
  ELSE IF Len(a.selector_region) < 3 THEN TRUE
  ELSE IF SquareOverflows(a.selector_region[3]) THEN TRUE
  ELSE
    /\ a.min_height \in Sides
    /\ a.min_width \in Sides
    /\ \A i \in 1..4 : Active(a, i) =>
         /\ Rows(a.images[i]) \in Sides
         /\ Cols(a.images[i]) \in Sides
         /\ mode # "None" =>
              MaskExact(a.min_height, a.min_width, a.selector_region[3])
         /\ a.component_selections[i] \in {"FT Magnitude", "FT Phase"} =>
              ExactPolar(fftshift(fft2(a.images[i])))

\* Mixer() (mixer.py lines 11-14).
Init ==
  /\ region_mode = "None"
  /\ output_label_1 = NoLabel
  /\ output_label_2 = NoLabel
  /\ fused \in BOOLEAN
  /\ last_text = << >>
  /\ args = NoCall
  /\ result = NoResult
  /\ calls = << >>

SetRegionMode(mode) ==
  /\ region_mode' = set_region_mode(mode)
  /\ last_text' = <<mode>>
  /\ UNCHANGED <<output_label_1, output_label_2, fused, args, result, calls>>

\* set_output_labels that also clears the region mode.
SetOutputLabels_clearing_mode(label1, label2) ==
  /\ output_label_1' = label1
  /\ output_label_2' = label2
  /\ region_mode' = "None"
  /\ UNCHANGED <<fused, last_text, args, result, calls>>

SetOutputLabels(label1, label2) ==
  /\ output_label_1' = label1
  /\ output_label_2' = label2
  /\ UNCHANGED <<region_mode, fused, last_text, args, result, calls>>

\* The number of mix_images calls of one run.
MaxCalls == 3

\* mix_images that keeps the selector_region of the call before it.
MixImages_keeping_region(a) ==
  /\ Len(calls) < MaxCalls
  /\ Exact(region_mode, a)
  /\ args' = a
  /\ result' = mix_images(region_mode, fused,
                          IF args = NoCall THEN a
                          ELSE [a EXCEPT !.selector_region =
                                           args.selector_region])
  /\ calls' = Append(calls, <<region_mode, a, result'>>)
  /\ UNCHANGED <<region_mode, output_label_1, output_label_2, fused, last_text>>

MixImages(a) ==
  /\ Len(calls) < MaxCalls
  /\ Exact(region_mode, a)
  /\ args' = a
  /\ result' = mix_images(region_mode, fused, a)
  /\ calls' = Append(calls, <<region_mode, a, result'>>)
  /\ UNCHANGED <<region_mode, output_label_1, output_label_2, fused, last_text>>

\* ------------------------------------------------------------------------
\* The life of one Mixer: any sequence of its three operations

HighFrequencyOuter == <<"H", "i", "g", "h", "-", "F", "r", "e", "q", "u", "e", "n", "c", "y", " ", "(", "O", "u", "t", "e", "r", ")">>
LowInnerRegion == <<"L", "o", "w", " ", "(", "I", "n", "n", "e", "r", ")", " ", "R", "e", "g", "i", "o", "n">>
Off == <<"O", "f", "f">>
OuterThenInner == <<"O", "u", "t", "e", "r", "+", "I", "n", "n", "e", "r">>
LowerCaseInner == <<"i", "n", "n", "e", "r">>

Texts == {HighFrequencyOuter, LowInnerRegion, Off, OuterThenInner,
          LowerCaseInner}

LabelPairs == {<<"OutputLabel1", "OutputLabel2">>,
               <<"OutputLabel2", "OutputLabel1">>}

\* sigma = 0, whose mask is 1 at the centre and 0 elsewhere; sigma = 1;
\* sigma = 1e9, whose mask is all ones; sigma = 1e154, the same, with
\* 2.0 * sigma ** 2 infinite; sigma = 1e155, whose square overflows.
NoSpread == <<0, 0>>
UnitSpread == <<1, 0>>
WideSpread == <<1, 9>>
WidestSpread == <<1, 154>>
HugeSpread == <<1, 155>>

Absent == <<NoImage, NoImage, NoImage, NoImage>>

\* One 2 x 2 image mixed by its real part, sigma 0; and two 1 x 2 images
\* mixed by real part and phase, wide sigma.
CallArgs ==
  { Arguments(<< <<<<3, 1>>, <<1, 0>>>>, NoImage, NoImage, NoImage >>,
              <<1, 0, 0, 0>>,
              <<"FT Real", "FT Real", "FT Real", "FT Real">>,
              <<1, 1, NoSpread, 0>>, 2, 2),
    Arguments(<< NoImage, <<<<0, 7>>>>, <<<<2, 1>>>>, NoImage >>,
              <<1, 1, 2, 0>>,
              <<"FT Real", "FT Real", "FT Phase", "FT Real">>,
              <<0, 0, WideSpread, 0>>, 1, 2) }

Next ==
  \/ \E mode \in Texts : SetRegionMode(mode)
  \/ \E labels \in LabelPairs : SetOutputLabels(labels[1], labels[2])
  \/ \E a \in CallArgs : MixImages(a)

Spec == Init /\ [][Next]_vars

\* ------------------------------------------------------------------------
\* Properties of the life of one Mixer (checked under Spec)

\* The mode a text asks for: the rules of the region-mode setter in order.
ModeOfText(text) ==
  CASE Contains(text, Inner) -> "Inner"
    [] ~Contains(text, Inner) /\ Contains(text, Outer) -> "Outer"
    [] ~Contains(text, Inner) /\ ~Contains(text, Outer) -> "None"

\* C3: after set_region_mode(text) the region mode is Inner if the text
\* contains "Inner", Outer if it contains "Outer" (and not "Inner", which is
\* tested first), None otherwise, whatever mode was held before the call.
C3_ModeFollowsText ==
  last_text # << >> =>
    /\ region_mode = ModeOfText(last_text[1])
    /\ last_text[1] = HighFrequencyOuter => region_mode = "Outer"
    /\ last_text[1] = LowInnerRegion => region_mode = "Inner"
    /\ last_text[1] = Off => region_mode = "None"

\* "Off" was the last text, after a call made under another mode.
C3_Witness ==
  /\ last_text = <<Off>>
  /\ region_mode = "None"
  /\ Len(calls) > 0
  /\ calls[Len(calls)][1] = "Inner"

\* C7: two mix_images calls with identical arguments made under the same
\* region mode return identical outputs, whatever happened between them.
C7_SameCallSameOutput ==
  \A i \in 1..Len(calls) : \A j \in 1..Len(calls) :
     (calls[i][1] = calls[j][1] /\ calls[i][2] = calls[j][2])
       => calls[i][3] = calls[j][3]

\* The same masked call twice, with a different call under a different
\* mode between them.
C7_Witness ==
  /\ Len(calls) = 3
  /\ calls[1][1] = "Inner"
  /\ calls[2][1] = "Outer"
  /\ calls[3][1] = "Inner"
  /\ calls[1][2] = calls[3][2]
  /\ calls[2][2] # calls[1][2]
  /\ calls[1][3].status = "returned"
  /\ calls[2][3] # calls[1][3]

\* The mode in force after the texts given so far.
ModeInForce == IF last_text = << >> THEN "None" ELSE ModeOfText(last_text[1])

\* A step that made a mix_images call, one that set the output labels, one
\* that set the region mode.
MixStep == calls' # calls
LabelStep == output_label_1' # output_label_1 \/ output_label_2' # output_label_2
ModeStep == last_text' # last_text \/ region_mode' # region_mode

C9_Frame ==
  /\ (MixStep \/ LabelStep) => region_mode' = region_mode
  /\ ModeStep => UNCHANGED <<output_label_1, output_label_2, args, result, calls>>
  /\ MixStep =>
       /\ calls'[Len(calls')][1] = ModeInForce
       /\ result' = mix_images(ModeInForce, fused, args')

\* C9: the region mode starts as None, is always one of None, Inner and
\* Outer, is left unchanged by mix_images and set_output_labels, is the only
\* thing set_region_mode changes, and a mix_images call applies the mode of
\* the most recent set_region_mode (None if there was none).
C9_ModeOnlySetBySetter ==
  /\ region_mode = "None"
  /\ [](region_mode \in RegionModes)
  /\ [][C9_Frame]_vars

\* Labels set, then the mode set to Outer, then a masked call, then the mode
\* set to Inner.
C9_Witness ==
  /\ output_label_1 = "OutputLabel2"
  /\ region_mode = "Inner"
  /\ Len(calls) = 1
  /\ calls[1][1] = "Outer"
  /\ calls[1][3].status = "returned"

\* ------------------------------------------------------------------------
\* mix_images as a function: the Mixer is in a state its operations reach,
\* the arguments of one call are drawn from bounded sets, the call is made.

\* The largest pixel of the 1 x 2 images, and of the four-pixel images.
MaxPix == 7
MaxWidePix == 2

\* The largest weight.
MaxWeight == 2

Images1x2 == {<< <<p, q>> >> : p, q \in 0..MaxPix}

Images1x4 ==
  {<< <<p, q, r, s>> >> : p, q, r, s \in 0..MaxWidePix}

Images2x2 ==
  {<< <<p, q>>, <<r, s>> >> : p, q, r, s \in 0..MaxWidePix}

\* 4 x 4 images: a 2 x 2 corner of zeros and ones, zero elsewhere.
Images4x4 ==
  {[y \in 1..4 |-> [x \in 1..4 |->
      IF y <= 2 /\ x <= 2 THEN c[y][x] ELSE 0]] :
     c \in {<< <<p, q>>, <<r, s>> >> : p, q, r, s \in 0..1}}

\* A selector the code does not know (the name without its "FT " prefix).
UnknownSelector == "Magnitude"

AnySelector == Selectors \cup {UnknownSelector}

Spreads == {NoSpread, WideSpread}

\* One image in slot 1, the other slots absent, the image's own dimensions.
SingleSlot(image, weight, selected, sigma) ==
  Arguments(<<image, NoImage, NoImage, NoImage>>, <<weight, 0, 0, 0>>,
            <<selected, "FT Real", "FT Real", "FT Real">>,
            <<0, 0, sigma, 0>>, Rows(image), Cols(image))

PairCalls ==
  {SingleSlot(image, weight, selected, sigma) :
     image \in Images1x2, weight \in 1..MaxWeight, selected \in AnySelector,
     sigma \in Spreads}

WideCalls ==
  {SingleSlot(image, 1, selected, NoSpread) :
     image \in Images1x4 \cup Images2x2 \cup Images4x4,
     selected \in Selectors}

\* One image of each shape.
ShapeSamples ==
  { << <<5>> >>, << <<1, 3>> >>, << <<3>>, <<1>> >>,
    << <<3, 1>>, <<1, 0>> >>, << <<3, 0, 1, 0>> >> }

\* One image in slot 2, and target dimensions that need not be its own.
ShapeCalls ==
  {Arguments(<<NoImage, image, NoImage, NoImage>>, <<0, 1, 0, 0>>,
             <<"FT Real", selected, "FT Real", "FT Real">>,
             <<0, 0, NoSpread, 0>>, h, w) :
     image \in ShapeSamples, selected \in {"FT Real", "FT Phase"},
     h \in Sides, w \in Sides}

\* No active slot: images absent or weights 0, every dimension and sigma.
SkippedCalls ==
  {Arguments(images, weights,
             <<"FT Magnitude", "FT Phase", "FT Real", UnknownSelector>>,
             <<2, 2, sigma, 0>>, h, w) :
     images \in {Absent,
                 << <<<<1, 3>>>>, NoImage, <<<<3, 1>>, <<1, 0>>>>, NoImage >>},
     weights \in {<<0, 0, 0, 0>>, <<0, 1, 0, 2>>},
     sigma \in {NoSpread, UnitSpread, WideSpread, WidestSpread, HugeSpread},
     h \in Sides, w \in Sides}

\* A selector_region without a sigma.
ShortRegionCalls ==
  {[a EXCEPT !.selector_region = region] :
     a \in {SingleSlot(<< <<1, 3>> >>, 1, "FT Real", NoSpread),
            Arguments(Absent, <<0, 0, 0, 0>>,
                      <<"FT Real", "FT Real", "FT Real", "FT Real">>,
                      << >>, 2, 2)},
     region \in {<< >>, <<1, 1>>}}

\* A target height or width of None, whatever the other arguments.
PlaceholderCalls ==
  {[a EXCEPT !.min_height = d[1], !.min_width = d[2]] :
     a \in ShortRegionCalls
           \cup {SingleSlot(<< <<0, 7>> >>, 2, "FT Phase", UnitSpread),
                 SingleSlot(<< <<3, 1>>, <<1, 0>> >>, 1, "FT Real", HugeSpread),
                 Arguments(<< <<<<1, 3>>>>, <<<<5>>>>, NoImage,
                              <<<<3, 0, 1, 0>>>> >>, <<1, 2, 1, 0>>,
                           <<"FT Real", UnknownSelector, "FT Phase",
                             "FT Imaginary">>,
                           <<0, 0, WideSpread, 0>>, 2, 2)},
     d \in {<<NoDim, NoDim>>, <<NoDim, 2>>, <<2, NoDim>>}}

MixCalls ==
  PairCalls \cup WideCalls \cup ShapeCalls \cup SkippedCalls
    \cup ShortRegionCalls \cup PlaceholderCalls

\* The Mixer after its constructor and at most one set_region_mode.
InitMixer(text) ==
  /\ region_mode = IF text = << >> THEN "None" ELSE set_region_mode(text[1])
  /\ last_text = text
  /\ output_label_1 = NoLabel
  /\ output_label_2 = NoLabel
  /\ fused \in BOOLEAN
  /\ calls = << >>

MixerTexts == {<< >>, <<LowInnerRegion>>, <<HighFrequencyOuter>>}

InitMix ==
  /\ \E text \in MixerTexts : InitMixer(text)
  /\ args \in {a \in MixCalls : Exact(region_mode, a)}
  /\ result = Pending

\* The pending call is made.
MixCall == result = Pending /\ MixImages(args)

SpecMix == InitMix /\ [][MixCall]_vars

\* ------------------------------------------------------------------------
\* Properties of one mix_images call (checked under SpecMix)

\* The call has been made.
Called == result.status \notin {"none", "pending"}

HasDims == args.min_height # NoDim /\ args.min_width # NoDim

HasSigma == Len(args.selector_region) >= 3

\* Slot i has a present image and a non-zero weight.
ActiveSlot(i) == args.images[i] # NoImage /\ args.weights[i] # 0

\* image is an h x w grid of zeros.
IsZeroImage(image, h, w) ==
  /\ Len(image) = h
  /\ \A y \in 1..h :
       /\ Len(image[y]) = w
       /\ \A x \in 1..w : image[y][x] = 0

\* C1: with min_height or min_width absent, mix_images returns a 100 x 100
\* image of zeros and raises nothing, whatever the other arguments and the
\* region mode.
C1_PlaceholderWithoutDims ==
  (Called /\ ~HasDims) =>
    /\ result.status = "returned"
    /\ IsZeroImage(result.image, 100, 100)

\* Only the height is absent, selector_region is empty, a slot is active and
\* the mode is Outer.
C1_Witness ==
  /\ Called
  /\ args.min_height = NoDim
  /\ args.min_width = 2
  /\ args.selector_region = << >>
  /\ ActiveSlot(1)
  /\ region_mode = "Outer"
  /\ result.status = "returned"

\* C2: with H and W supplied and all four slots skipped, mix_images returns
\* an H x W image of zeros, in every region mode and for every sigma, and
\* raises nothing.
C2_AllSkippedGivesZeros ==
  (Called /\ HasDims /\ HasSigma /\ \A i \in 1..4 : ~ActiveSlot(i)) =>
    /\ result.status = "returned"
    /\ IsZeroImage(result.image, args.min_height, args.min_width)

\* C4: when some active image's shape differs from (min_height, min_width),
\* mix_images fails with an error and returns no output.
C4_MismatchFailsFast ==
  (/\ Called
   /\ HasDims
   /\ HasSigma
   /\ \E i \in 1..4 :
        /\ ActiveSlot(i)
        /\ Shape(args.images[i]) # <<args.min_height, args.min_width>>)
    => result.status \in {"ValueError", "IndexError", "TypeError",
                          "OverflowError"}

\* The call is the one of the round trip: region mode None, slot i the only
\* active slot, weight 1, selector "FT Real", the image's own dimensions.
RoundTripOf(i) ==
  /\ Called
  /\ region_mode = "None"
  /\ HasDims
  /\ HasSigma
  /\ ActiveSlot(i)
  /\ \A j \in 1..4 : j # i => ~ActiveSlot(j)
  /\ args.weights[i] = 1
  /\ args.component_selections[i] = "FT Real"
  /\ Shape(args.images[i]) = <<args.min_height, args.min_width>>

\* mixed_image of the call, as numerators over H * W.
Reconstruction == reconstruct(combine(region_mode, args).combined_ft)

\* The pixel of image opposite (y, x): the indices negated modulo the sides.
Opposite(image, y, x) ==
  image[((Rows(image) - (y - 1)) % Rows(image)) + 1]
       [((Cols(image) - (x - 1)) % Cols(image)) + 1]

PointSymmetric(image) ==
  \A y \in 1..Rows(image) : \A x \in 1..Cols(image) :
     image[y][x] = Opposite(image, y, x)

\* H * W times the average of image and its point reflection.
SymmetricAverage(image) ==
  [y \in 1..Rows(image) |-> [x \in 1..Cols(image) |->
     (Rows(image) * Cols(image) * (image[y][x] + Opposite(image, y, x)))
       \div 2]]

\* C5 as stated: the reconstruction of the round trip is the original image.
C5_RealReproducesImage ==
  \A i \in 1..4 : RoundTripOf(i) =>
     \A y \in 1..args.min_height : \A x \in 1..args.min_width :
        Reconstruction[y][x]
          = args.min_height * args.min_width * args.images[i][y][x]

\* C5, amended: the reconstruction of the round trip is the average of the
\* image and its point reflection, the output is the min-max rescale of that
\* average, and the reconstruction is the original image exactly when the
\* image is point-symmetric.
C5_RealGivesSymmetricAverage ==
  \A i \in 1..4 : RoundTripOf(i) =>
     /\ Reconstruction = SymmetricAverage(args.images[i])
     /\ result = Returned(Normalize(SymmetricAverage(args.images[i]), fused))
     /\ PointSymmetric(args.images[i])
          <=> (\A y \in 1..args.min_height : \A x \in 1..args.min_width :
                 Reconstruction[y][x]
                   = args.min_height * args.min_width * args.images[i][y][x])

\* The round trip of a 4 x 4 image that is not point-symmetric, whose output
\* is not the image.
C5_Witness ==
  /\ RoundTripOf(1)
  /\ Shape(args.images[1]) = <<4, 4>>
  /\ ~PointSymmetric(args.images[1])
  /\ result.status = "returned"
  /\ result.image # args.images[1]

\* C6: with H and W supplied the returned image is H x W with every pixel in
\* 0..255, and when the reconstruction is not constant its minimum maps to 0
\* and its maximum maps to 255.
C6_MinTo0MaxTo255 ==
  (Called /\ HasDims /\ result.status = "returned") =>
    /\ Len(result.image) = args.min_height
    /\ \A y \in 1..args.min_height :
         /\ Len(result.image[y]) = args.min_width
         /\ \A x \in 1..args.min_width : result.image[y][x] \in 0..255
    /\ MatrixMin(Reconstruction) # MatrixMax(Reconstruction) =>
         \A y \in 1..args.min_height : \A x \in 1..args.min_width :
            /\ Reconstruction[y][x] = MatrixMin(Reconstruction)
                 => result.image[y][x] = 0
            /\ Reconstruction[y][x] = MatrixMax(Reconstruction)
                 => result.image[y][x] = 255

\* ------------------------------------------------------------------------
\* mix_images on four slots of a 1 x 2 mix: each slot is drawn from the
\* forms below, skipped ones and active ones.

\* <<image, weight, selector>>
SlotForms ==
  { <<NoImage, 1, "FT Real">>,
    << << <<1, 3>> >>, 0, "FT Imaginary">>,
    << << <<1, 3>> >>, 1, "FT Real">>,
    << << <<2, 1>> >>, 2, "FT Phase">>,
    << << <<0, 7>> >>, 2, UnknownSelector>>,
    << << <<5>> >>, 1, UnknownSelector>>,
    << << <<1, 2, 3, 4>> >>, 1, UnknownSelector>> }

SlotCalls ==
  {Arguments(<<s1[1], s2[1], s3[1], s4[1]>>, <<s1[2], s2[2], s3[2], s4[2]>>,
             <<s1[3], s2[3], s3[3], s4[3]>>, <<0, 0, NoSpread, 0>>, 1, 2) :
     s1 \in SlotForms, s2 \in SlotForms, s3 \in SlotForms, s4 \in SlotForms}

InitSlots ==
  /\ \E text \in MixerTexts : InitMixer(text)
  /\ args \in {a \in SlotCalls : Exact(region_mode, a)}
  /\ result = Pending

SpecSlots == InitSlots /\ [][MixCall]_vars

\* ------------------------------------------------------------------------
\* Properties of the slots of one mix_images call (checked under SpecSlots)

\* Slot i of the call with image, weight and selector replaced.
WithSlot(a, i, form) ==
  [a EXCEPT !.images[i] = form[1], !.weights[i] = form[2],
            !.component_selections[i] = form[3]]

\* Values that leave a slot skipped.
SkippedForms ==
  { <<NoImage, 0, "FT Real">>,
    <<NoImage, 2, "FT Phase">>,
    << << <<9, 9, 9, 9>> >>, 0, "FT Magnitude">>,
    << << <<4, 2>> >>, 0, UnknownSelector>> }

\* C8: if slot i is skipped (image absent or weight 0), the outcome of the
\* call is that of the call with slot i's image, weight and selector
\* replaced by any other values that leave it skipped.
C8_SkippedSlotIsIrrelevant ==
  Called =>
    \A i \in 1..4 : ~ActiveSlot(i) =>
       \A form \in SkippedForms :
          mix_images(region_mode, fused, WithSlot(args, i, form)) = result

\* An absent slot and a weight-0 slot beside two active slots, mode Inner,
\* an output that is not all zeros.
C8_Witness ==
  /\ Called
  /\ args.images[1] = NoImage
  /\ args.images[2] # NoImage
  /\ args.weights[2] = 0
  /\ ActiveSlot(3)
  /\ args.component_selections[3] = "FT Real"
  /\ ActiveSlot(4)
  /\ args.component_selections[4] = "FT Phase"
  /\ region_mode = "Inner"
  /\ result.status = "returned"
  /\ ~IsZeroImage(result.image, 1, 2)

\* Slot i is active and its selector is none of the four.
UnknownSlot(i) ==
  ActiveSlot(i) /\ args.component_selections[i] \notin Selectors

\* The call with slot i's weight set to 0.
WithoutWeight(a, i) == [a EXCEPT !.weights[i] = 0]

\* C10 as stated: an active slot with an unknown selector raises nothing,
\* and the outcome is that of the call with the slot's weight set to 0.
C10_UnknownSelectorIsSkipped ==
  Called =>
    \A i \in 1..4 : UnknownSlot(i) =>
       mix_images(region_mode, fused, WithoutWeight(args, i)) = result

\* The image of slot i can be multiplied by the mask of the call.
Maskable(i) ==
  \/ region_mode = "None"
  \/ Broadcastable(Shape(args.images[i]), <<args.min_height, args.min_width>>)

\* The mask of the call is built: the dimensions are given, selector_region
\* holds a sigma, and the square of sigma is a double.
MaskBuilt ==
  HasDims /\ HasSigma /\ ~SquareOverflows(args.selector_region[3])

\* C10, amended: an active slot with an unknown selector adds nothing, but
\* its image is still transformed and masked.  If the image can be masked
\* (region mode None, or a shape that broadcasts with the target's) the
\* outcome is that of the call with the slot's weight set to 0; if it cannot
\* and the mask is built, mix_images raises ValueError, whatever the call
\* with the weight set to 0 does.
C10_MaskableUnknownSelectorIsSkipped ==
  Called =>
    \A i \in 1..4 : UnknownSlot(i) =>
       /\ Maskable(i) =>
            mix_images(region_mode, fused, WithoutWeight(args, i)) = result
       /\ (~Maskable(i) /\ MaskBuilt) => result.status = "ValueError"

\* Unknown selectors on a 1 x 1 image (broadcast with the 1 x 2 mask) and on
\* a 1 x 2 image of weight 2, beside an active "FT Phase" slot, mode Inner,
\* an output that is not all zeros.
C10_Witness ==
  /\ Called
  /\ ActiveSlot(1)
  /\ args.component_selections[1] = "FT Phase"
  /\ UnknownSlot(2)
  /\ Shape(args.images[2]) = <<1, 1>>
  /\ UnknownSlot(3)
  /\ Shape(args.images[3]) = <<1, 2>>
  /\ ~ActiveSlot(4)
  /\ region_mode = "Inner"
  /\ result.status = "returned"
  /\ ~IsZeroImage(result.image, 1, 2)

====
